---- MODULE Spec2Model ----
(***************************************************************************)
(* The bookstore application of src/app.js: the four tables of the store   *)
(* (book, author, publisher, bookauthor), and one action per awaited       *)
(* statement of every request handler that reads or writes them.  Every    *)
(* await is a point where another request may run, so every awaited        *)
(* statement is one step of the request slot that runs the handler; the    *)
(* synchronous code around a statement belongs to the statement's step.    *)
(*                                                                         *)
(* Text values (ISBNs, names, search terms) are sequences of one-character *)
(* strings, so that trimming and pattern matching are computed.            *)
(***************************************************************************)
EXTENDS Integers, Sequences, FiniteSets, TLC

\* Bound: POST /authors is taken only while the id it computes is at most this.
MaxAuthorId == 2

\* Request slots: the requests that may be in flight at the same time.
Procs == {1, 2}

AuthorIds == 1..MaxAuthorId
PublisherNames == {<<"P">>, <<"P", "1">>}
Url == <<"u">>
Phone == <<"7">>

\* The bounded sets the requests draw their inputs from; an empty text is a
\* required field of the form submitted empty.
Inputs ==
    [isbns |-> {<<"1">>, <<"2">>},
     titles |-> {<<"t">>},
     authorNames |-> {<<"P", "x">>},
     editedNames |-> {<<"P", "x">>, <<>>},
     addresses |-> {<<"s">>},
     years |-> {2000},
     prices |-> {10},
     queries |-> {<<>>, <<" ">>, <<" ", "1", " ">>, <<"P">>, <<"p">>, <<"x">>,
                  <<"_">>, <<"y">>}]

\* The smaller sets used while two requests are in flight.
ConcurrentInputs ==
    [isbns |-> {<<"1">>},
     titles |-> {<<"t">>},
     authorNames |-> {<<"P", "x">>},
     editedNames |-> {<<"P", "x">>},
     addresses |-> {<<"s">>},
     years |-> {2000},
     prices |-> {10},
     queries |-> {<<"P">>}]

Isbns == Inputs.isbns

BookBodies(D) ==
    [title : D.titles, isbn : D.isbns, author_id : AuthorIds,
     publisher_name : PublisherNames, publication_year : D.years, price : D.prices]
    \cup [title : {<<>>}, isbn : D.isbns, author_id : {1},
          publisher_name : {<<"P">>}, publication_year : D.years, price : D.prices]
\* PUT /books/:isbn reads no isbn from the body.
BookEdits(D) ==
    [title : D.titles, author_id : AuthorIds, publisher_name : PublisherNames,
     publication_year : D.years, price : D.prices]
    \cup [title : {<<>>}, author_id : {1}, publisher_name : {<<"P">>},
          publication_year : D.years, price : D.prices]
AuthorBodies(D) ==
    [name : D.authorNames \cup {<<>>}, url : {Url}, address : D.addresses]
AuthorEdits(D) == [name : D.editedNames, url : {Url}, address : D.addresses]
PublisherBodies(D) ==
    [name : PublisherNames, address : D.addresses, url : {Url}, phone : {Phone}]
    \cup [name : {<<"P">>}, address : {<<>>}, url : {Url}, phone : {Phone}]
PublisherEdits(D) ==
    [new_name : PublisherNames, address : D.addresses, phone : {Phone}]

VARIABLES
    book,        \* isbn -> [title, year, price, publisher_name]
    author,      \* author_id -> [name, url, address]
    publisher,   \* name -> [address, url, phone]
    bookauthor,  \* <<author_id, book_isbn>> -> number of such rows
    pc,          \* slot -> the statement its handler executes next
    loc,         \* slot -> the handler's local variables
    resp         \* the response the latest step sent, NoResponse when it sent none:
                 \* its route, the outcome, the view rendered, and for a publisher
                 \* update the :name and new_name of the request it answers

db == <<book, author, publisher, bookauthor>>
vars == <<book, author, publisher, bookauthor, pc, loc, resp>>

-----------------------------------------------------------------------------
(* Text *)

IsSpace(c) == c = " "

RECURSIVE TrimStart(_)
TrimStart(s) == IF s # <<>> /\ IsSpace(Head(s)) THEN TrimStart(Tail(s)) ELSE s

RECURSIVE TrimEnd(_)
TrimEnd(s) ==
    IF s # <<>> /\ IsSpace(s[Len(s)]) THEN TrimEnd(SubSeq(s, 1, Len(s) - 1)) ELSE s

\* String.prototype.trim
Trim(s) == TrimEnd(TrimStart(s))

Lower(c) ==
    IF c = "P" THEN "p" ELSE IF c = "T" THEN "t" ELSE IF c = "X" THEN "x" ELSE c
LowerText(s) == [k \in 1..Len(s) |-> Lower(s[k])]

\* SQL LIKE: % matches any text, _ any one character, \ quotes the next character.
RECURSIVE LikeMatch(_, _)
LikeMatch(s, pat) ==
    IF pat = <<>> THEN s = <<>>
    ELSE IF Head(pat) = "%"
        THEN LikeMatch(s, Tail(pat)) \/ (s # <<>> /\ LikeMatch(Tail(s), pat))
    ELSE IF Head(pat) = "\\" /\ Len(pat) >= 2
        THEN s # <<>> /\ Head(s) = pat[2] /\ LikeMatch(Tail(s), Tail(Tail(pat)))
    ELSE IF Head(pat) = "_"
        THEN s # <<>> /\ LikeMatch(Tail(s), Tail(pat))
    ELSE s # <<>> /\ Head(s) = Head(pat) /\ LikeMatch(Tail(s), Tail(pat))

\* s ILIKE pat
ILike(s, pat) == LikeMatch(LowerText(s), LowerText(pat))

\* The pattern `%${searchTerm}%`
SearchPattern(term) == <<"%">> \o term \o <<"%">>

-----------------------------------------------------------------------------
(* The schema: keys and foreign keys *)

LinkKeys == AuthorIds \X Isbns
NoLinks == [k \in LinkKeys |-> 0]

\* A table keyed by its primary key holds no row with this key yet.
PkFree(table, key) == key \notin DOMAIN table

\* Mutant: a schema without the foreign keys of bookauthor.
FkBookauthorOff(b, a, ba) == TRUE

\* bookauthor.author_id references author, bookauthor.book_isbn references book
FkBookauthor(b, a, ba) ==
    \A k \in LinkKeys : ba[k] > 0 => k[1] \in DOMAIN a /\ k[2] \in DOMAIN b

\* Mutant: a schema without the foreign key of book.publisher_name.
FkBookOff(b, pub) == TRUE

\* book.publisher_name references publisher
FkBook(b, pub) == \A i \in DOMAIN b : b[i].publisher_name \in DOMAIN pub

-----------------------------------------------------------------------------
(* Statements *)

\* The number of bookauthor rows with a key in ks.
RECURSIVE SumLinks(_, _)
SumLinks(ba, ks) ==
    IF ks = {} THEN 0
    ELSE LET k == CHOOSE x \in ks : TRUE IN ba[k] + SumLinks(ba, ks \ {k})

\* DELETE FROM bookauthor WHERE book_isbn = isbn
DeleteLinksOfBook(ba, isbn) == [k \in LinkKeys |-> IF k[2] = isbn THEN 0 ELSE ba[k]]

\* DELETE FROM bookauthor WHERE author_id = id
DeleteLinksOfAuthor(ba, id) == [k \in LinkKeys |-> IF k[1] = id THEN 0 ELSE ba[k]]

\* UPDATE bookauthor SET author_id = id WHERE book_isbn = isbn
UpdateLinksOfBook(ba, isbn, id) ==
    [k \in LinkKeys |->
        IF k[2] # isbn THEN ba[k]
        ELSE IF k[1] = id THEN SumLinks(ba, {j \in LinkKeys : j[2] = isbn}) ELSE 0]

\* Mutant: DELETE FROM book without its WHERE clause.
DeleteBooksOfAnyPublisher(b, name) == [i \in {} |-> b[i]]

\* DELETE FROM book WHERE publisher_name = name
DeleteBooksOfPublisher(b, name) ==
    [i \in {j \in DOMAIN b : b[j].publisher_name # name} |-> b[i]]

\* The row INSERT INTO book and UPDATE book write
BookRowOf(body) ==
    [title |-> body.title, year |-> body.publication_year, price |-> body.price,
     publisher_name |-> body.publisher_name]

Max(S) == CHOOSE m \in S : \A n \in S : n <= m

\* Mutant: SELECT COUNT(*) + 1.
NextAuthorIdByCount(a) == Cardinality(DOMAIN a) + 1

\* SELECT COALESCE(MAX(author_id), 0) + 1 AS next_id FROM author
NextAuthorId(a) == IF DOMAIN a = {} THEN 1 ELSE Max(DOMAIN a) + 1

\* The orders in which a query without ORDER BY may return the rows S.
Orders(S) ==
    {s \in [1..Cardinality(S) -> S] : \A i, j \in 1..Cardinality(S) : s[i] = s[j] => i = j}

-----------------------------------------------------------------------------
(* Validation middleware *)

validateBook(body) == body.title # <<>>
validateAuthor(body) == body.name # <<>>
validatePublisher(body) == body.name # <<>> /\ body.address # <<>>

-----------------------------------------------------------------------------
(* Request slots and responses *)

NoAuthor == [name |-> <<>>, url |-> <<>>, address |-> <<>>]
NoLoc ==
    [isbn |-> <<>>, author_id |-> 0, author |-> NoAuthor, name |-> <<>>,
     books |-> <<>>, i |-> 0, term |-> <<>>]

NoView == [books |-> {}, searchTerm |-> <<>>, searchType |-> ""]
NoResponse == [route |-> "", params |-> <<>>, status |-> "none", view |-> NoView]

\* The handler of slot p ends: it sends a response, or the error handler does.
RespondTo(p, route, params, status) ==
    /\ pc' = [pc EXCEPT ![p] = "idle"]
    /\ loc' = [loc EXCEPT ![p] = NoLoc]
    /\ resp' = [route |-> route, params |-> params, status |-> status, view |-> NoView]

Respond(p, route, status) == RespondTo(p, route, <<>>, status)

\* The handler of slot p goes on to its statement at label with locals l.
Goto(p, label, l) ==
    /\ pc' = [pc EXCEPT ![p] = label]
    /\ loc' = [loc EXCEPT ![p] = l]
    /\ resp' = NoResponse

Init ==
    /\ book = <<>>
    /\ author = <<>>
    /\ publisher = <<>>
    /\ bookauthor = NoLinks
    /\ pc = [p \in Procs |-> "idle"]
    /\ loc = [p \in Procs |-> NoLoc]
    /\ resp = NoResponse

-----------------------------------------------------------------------------
(* POST /books *)

\* Mutant: INSERT ... ON CONFLICT (isbn) DO UPDATE, the handler going on to the link.
PostBooksUpsert(p, body) ==
    /\ pc[p] = "idle"
    /\ IF ~validateBook(body)
         THEN Respond(p, "POST /books", "ValidationError") /\ UNCHANGED db
       ELSE LET b == [i \in DOMAIN book \cup {body.isbn} |->
                         IF i = body.isbn THEN BookRowOf(body) ELSE book[i]]
            IN  IF ~FkBook(b, publisher)
                  THEN Respond(p, "POST /books", "ForeignKeyViolation") /\ UNCHANGED db
                ELSE /\ book' = b
                     /\ UNCHANGED <<author, publisher, bookauthor>>
                     /\ Goto(p, "post_books_link",
                             [NoLoc EXCEPT !.isbn = body.isbn, !.author_id = body.author_id])

\* validateBook, then INSERT INTO book
PostBooks(p, body) ==
    /\ pc[p] = "idle"
    /\ IF ~validateBook(body)
         THEN Respond(p, "POST /books", "ValidationError") /\ UNCHANGED db
       ELSE IF ~PkFree(book, body.isbn)
         THEN Respond(p, "POST /books", "UniqueConstraintViolation") /\ UNCHANGED db
       ELSE LET b == [i \in DOMAIN book \cup {body.isbn} |->
                         IF i = body.isbn THEN BookRowOf(body) ELSE book[i]]
            IN  IF ~FkBook(b, publisher)
                  THEN Respond(p, "POST /books", "ForeignKeyViolation") /\ UNCHANGED db
                ELSE /\ book' = b
                     /\ UNCHANGED <<author, publisher, bookauthor>>
                     /\ Goto(p, "post_books_link",
                             [NoLoc EXCEPT !.isbn = body.isbn, !.author_id = body.author_id])

\* INSERT INTO bookauthor
PostBooksLink(p) ==
    /\ pc[p] = "post_books_link"
    /\ LET ba == [bookauthor EXCEPT ![<<loc[p].author_id, loc[p].isbn>>] = @ + 1]
       IN  IF ~FkBookauthor(book, author, ba)
             THEN Respond(p, "POST /books", "ForeignKeyViolation") /\ UNCHANGED db
           ELSE /\ bookauthor' = ba
                /\ UNCHANGED <<book, author, publisher>>
                /\ Respond(p, "POST /books", "redirect")

-----------------------------------------------------------------------------
(* PUT /books/:isbn *)

\* validateBook, then UPDATE book ... WHERE isbn
PutBooks(p, isbn, body) ==
    /\ pc[p] = "idle"
    /\ IF ~validateBook(body)
         THEN Respond(p, "PUT /books/:isbn", "ValidationError") /\ UNCHANGED db
       ELSE LET b == [i \in DOMAIN book |-> IF i = isbn THEN BookRowOf(body) ELSE book[i]]
            IN  IF ~FkBook(b, publisher)
                  THEN Respond(p, "PUT /books/:isbn", "ForeignKeyViolation")
                       /\ UNCHANGED db
                ELSE /\ book' = b
                     /\ UNCHANGED <<author, publisher, bookauthor>>
                     /\ Goto(p, "put_books_link",
                             [NoLoc EXCEPT !.isbn = isbn, !.author_id = body.author_id])

\* UPDATE bookauthor SET author_id ... WHERE book_isbn
PutBooksLink(p) ==
    /\ pc[p] = "put_books_link"
    /\ LET ba == UpdateLinksOfBook(bookauthor, loc[p].isbn, loc[p].author_id)
       IN  IF ~FkBookauthor(book, author, ba)
             THEN Respond(p, "PUT /books/:isbn", "ForeignKeyViolation") /\ UNCHANGED db
           ELSE /\ bookauthor' = ba
                /\ UNCHANGED <<book, author, publisher>>
                /\ Respond(p, "PUT /books/:isbn", "redirect")

-----------------------------------------------------------------------------
(* DELETE /books/delete/:isbn *)

\* SELECT * FROM book WHERE isbn.  No middleware of this app defines req.flash,
\* so the call in the not-found branch throws a TypeError.
DeleteBooks(p, isbn) ==
    /\ pc[p] = "idle"
    /\ UNCHANGED db
    /\ IF isbn \notin DOMAIN book
         THEN Respond(p, "DELETE /books/delete/:isbn", "TypeError")
         ELSE Goto(p, "delete_books_links", [NoLoc EXCEPT !.isbn = isbn])

\* DELETE FROM bookauthor WHERE book_isbn
DeleteBooksLinks(p) ==
    /\ pc[p] = "delete_books_links"
    /\ bookauthor' = DeleteLinksOfBook(bookauthor, loc[p].isbn)
    /\ UNCHANGED <<book, author, publisher>>
    /\ Goto(p, "delete_books_row", loc[p])

\* DELETE FROM book WHERE isbn
DeleteBooksRow(p) ==
    /\ pc[p] = "delete_books_row"
    /\ LET b == [i \in DOMAIN book \ {loc[p].isbn} |-> book[i]]
       IN  IF ~FkBookauthor(b, author, bookauthor)
             THEN Respond(p, "DELETE /books/delete/:isbn", "ForeignKeyViolation")
                  /\ UNCHANGED db
           ELSE /\ book' = b
                /\ UNCHANGED <<author, publisher, bookauthor>>
                /\ Respond(p, "DELETE /books/delete/:isbn", "redirect")

-----------------------------------------------------------------------------
(* POST /authors *)

\* validateAuthor, then SELECT COALESCE(MAX(author_id), 0) + 1
PostAuthors(p, body) ==
    /\ pc[p] = "idle"
    /\ UNCHANGED db
    /\ IF ~validateAuthor(body)
         THEN Respond(p, "POST /authors", "ValidationError")
         ELSE /\ NextAuthorId(author) <= MaxAuthorId
              /\ Goto(p, "post_authors_insert",
                      [NoLoc EXCEPT !.author_id = NextAuthorId(author), !.author = body])

\* INSERT INTO author
PostAuthorsInsert(p) ==
    /\ pc[p] = "post_authors_insert"
    /\ IF ~PkFree(author, loc[p].author_id)
         THEN Respond(p, "POST /authors", "UniqueConstraintViolation") /\ UNCHANGED db
         ELSE /\ author' = [i \in DOMAIN author \cup {loc[p].author_id} |->
                               IF i = loc[p].author_id THEN loc[p].author ELSE author[i]]
              /\ UNCHANGED <<book, publisher, bookauthor>>
              /\ Respond(p, "POST /authors", "redirect")

-----------------------------------------------------------------------------
(* PUT /authors/:id *)

\* UPDATE author ... WHERE author_id; the route has no validation middleware
PutAuthors(p, id, body) ==
    /\ pc[p] = "idle"
    /\ author' = [i \in DOMAIN author |-> IF i = id THEN body ELSE author[i]]
    /\ UNCHANGED <<book, publisher, bookauthor>>
    /\ Respond(p, "PUT /authors/:id", "redirect")

-----------------------------------------------------------------------------
(* DELETE /authors/delete/:id *)

\* SELECT * FROM author WHERE author_id; req.flash throws as in DeleteBooks
DeleteAuthors(p, id) ==
    /\ pc[p] = "idle"
    /\ UNCHANGED db
    /\ IF id \notin DOMAIN author
         THEN Respond(p, "DELETE /authors/delete/:id", "TypeError")
         ELSE Goto(p, "delete_authors_links", [NoLoc EXCEPT !.author_id = id])

\* DELETE FROM bookauthor WHERE author_id
DeleteAuthorsLinks(p) ==
    /\ pc[p] = "delete_authors_links"
    /\ bookauthor' = DeleteLinksOfAuthor(bookauthor, loc[p].author_id)
    /\ UNCHANGED <<book, author, publisher>>
    /\ Goto(p, "delete_authors_row", loc[p])

\* DELETE FROM author WHERE author_id
DeleteAuthorsRow(p) ==
    /\ pc[p] = "delete_authors_row"
    /\ LET a == [i \in DOMAIN author \ {loc[p].author_id} |-> author[i]]
       IN  IF ~FkBookauthor(book, a, bookauthor)
             THEN Respond(p, "DELETE /authors/delete/:id", "ForeignKeyViolation")
                  /\ UNCHANGED db
           ELSE /\ author' = a
                /\ UNCHANGED <<book, publisher, bookauthor>>
                /\ Respond(p, "DELETE /authors/delete/:id", "redirect")

-----------------------------------------------------------------------------
(* POST /publishers *)

\* validatePublisher, then INSERT INTO publisher
PostPublishers(p, body) ==
    /\ pc[p] = "idle"
    /\ IF ~validatePublisher(body)
         THEN Respond(p, "POST /publishers", "ValidationError") /\ UNCHANGED db
       ELSE IF ~PkFree(publisher, body.name)
         THEN Respond(p, "POST /publishers", "UniqueConstraintViolation")
              /\ UNCHANGED db
       ELSE /\ publisher' = [n \in DOMAIN publisher \cup {body.name} |->
                                IF n = body.name
                                  THEN [address |-> body.address, url |-> body.url,
                                        phone |-> body.phone]
                                  ELSE publisher[n]]
            /\ UNCHANGED <<book, author, bookauthor>>
            /\ Respond(p, "POST /publishers", "redirect")

-----------------------------------------------------------------------------
(* PUT /publishers/:name *)

\* UPDATE publisher SET name, address, phone WHERE name, inside the transaction:
\* the table after the statement, or the statement's error.
TxUpdatePublisher(pub, name, edit) ==
    IF name \notin DOMAIN pub
      THEN [error |-> "", publisher |-> pub]
    ELSE IF edit.new_name # name /\ ~PkFree(pub, edit.new_name)
      THEN [error |-> "UniqueConstraintViolation", publisher |-> pub]
    ELSE [error |-> "",
          publisher |-> [n \in (DOMAIN pub \ {name}) \cup {edit.new_name} |->
                            IF n = edit.new_name
                              THEN [address |-> edit.address, url |-> pub[name].url,
                                    phone |-> edit.phone]
                              ELSE pub[n]]]

\* Mutant: the second statement deletes the renamed publisher's books instead of
\* reattributing them.
TxUpdateBookDeleted(b, name, new_name) ==
    [i \in {j \in DOMAIN b : new_name = name \/ b[j].publisher_name # name} |-> b[i]]

\* if (new_name !== name) UPDATE book SET publisher_name = new_name WHERE publisher_name = name
TxUpdateBook(b, name, new_name) ==
    IF new_name # name
      THEN [i \in DOMAIN b |->
               IF b[i].publisher_name = name
                 THEN [b[i] EXCEPT !.publisher_name = new_name] ELSE b[i]]
      ELSE b

\* Mutant: no transaction, and the books reattributed before the publisher is
\* renamed; what the first statement wrote stays when the second fails.
PutPublishersBookFirst(p, name, edit) ==
    /\ pc[p] = "idle"
    /\ LET b == TxUpdateBook(book, name, edit.new_name)
           t1 == TxUpdatePublisher(publisher, name, edit)
           answer(status) ==
               RespondTo(p, "PUT /publishers/:name", <<name, edit.new_name>>, status)
       IN  IF ~FkBook(b, publisher)
             THEN answer("ForeignKeyViolation") /\ UNCHANGED db
           ELSE IF t1.error # ""
             THEN /\ book' = b
                  /\ UNCHANGED <<author, publisher, bookauthor>>
                  /\ answer(t1.error)
           ELSE /\ publisher' = t1.publisher
                /\ book' = b
                /\ UNCHANGED <<author, bookauthor>>
                /\ answer("redirect")

\* db.tx: the statements run on the transaction's view of the tables; a statement's
\* error rolls everything back, otherwise the commit publishes both tables at once.
\* The route has no validation middleware.
PutPublishers(p, name, edit) ==
    /\ pc[p] = "idle"
    /\ LET t1 == TxUpdatePublisher(publisher, name, edit)
           b == TxUpdateBook(book, name, edit.new_name)
           answer(status) ==
               RespondTo(p, "PUT /publishers/:name", <<name, edit.new_name>>, status)
       IN  IF t1.error # ""
             THEN answer(t1.error) /\ UNCHANGED db
           ELSE IF ~FkBook(b, t1.publisher)
             THEN answer("ForeignKeyViolation") /\ UNCHANGED db
           ELSE /\ publisher' = t1.publisher
                /\ book' = b
                /\ UNCHANGED <<author, bookauthor>>
                /\ answer("redirect")

-----------------------------------------------------------------------------
(* DELETE /publishers/delete/:name *)

\* SELECT * FROM publisher WHERE name; req.flash throws as in DeleteBooks
DeletePublishers(p, name) ==
    /\ pc[p] = "idle"
    /\ UNCHANGED db
    /\ IF name \notin DOMAIN publisher
         THEN Respond(p, "DELETE /publishers/delete/:name", "TypeError")
         ELSE Goto(p, "delete_publishers_select", [NoLoc EXCEPT !.name = name])

\* The statement after the loop has visited books[1..i-1].
AfterLink(books, i) ==
    IF i > Len(books) THEN "delete_publishers_books" ELSE "delete_publishers_links"

\* SELECT isbn FROM book WHERE publisher_name; the rows come in any order
DeletePublishersSelect(p) ==
    /\ pc[p] = "delete_publishers_select"
    /\ UNCHANGED db
    /\ \E books \in Orders({i \in DOMAIN book : book[i].publisher_name = loc[p].name}) :
          Goto(p, AfterLink(books, 1), [loc[p] EXCEPT !.books = books, !.i = 1])

\* for (let book of books) DELETE FROM bookauthor WHERE book_isbn
DeletePublishersLinks(p) ==
    /\ pc[p] = "delete_publishers_links"
    /\ bookauthor' = DeleteLinksOfBook(bookauthor, loc[p].books[loc[p].i])
    /\ UNCHANGED <<book, author, publisher>>
    /\ Goto(p, AfterLink(loc[p].books, loc[p].i + 1), [loc[p] EXCEPT !.i = @ + 1])

\* DELETE FROM book WHERE publisher_name
DeletePublishersBooks(p) ==
    /\ pc[p] = "delete_publishers_books"
    /\ LET b == DeleteBooksOfPublisher(book, loc[p].name)
       IN  IF ~FkBookauthor(b, author, bookauthor)
             THEN Respond(p, "DELETE /publishers/delete/:name", "ForeignKeyViolation")
                  /\ UNCHANGED db
           ELSE /\ book' = b
                /\ UNCHANGED <<author, publisher, bookauthor>>
                /\ Goto(p, "delete_publishers_row", loc[p])

\* DELETE FROM publisher WHERE name
DeletePublishersRow(p) ==
    /\ pc[p] = "delete_publishers_row"
    /\ LET pub == [n \in DOMAIN publisher \ {loc[p].name} |-> publisher[n]]
       IN  IF ~FkBook(book, pub)
             THEN Respond(p, "DELETE /publishers/delete/:name", "ForeignKeyViolation")
                  /\ UNCHANGED db
           ELSE /\ publisher' = pub
                /\ UNCHANGED <<book, author, bookauthor>>
                /\ Respond(p, "DELETE /publishers/delete/:name", "redirect")

-----------------------------------------------------------------------------
(* GET /search *)

\* A row of SELECT * FROM book
BookRow(i) ==
    [isbn |-> i, title |-> book[i].title, year |-> book[i].year,
     price |-> book[i].price, publisher_name |-> book[i].publisher_name]

\* A row of SELECT b.*, a.name AS author_name
JoinedRow(i, name) ==
    [isbn |-> i, title |-> book[i].title, year |-> book[i].year,
     price |-> book[i].price, publisher_name |-> book[i].publisher_name,
     author_name |-> name]

\* SELECT * FROM book WHERE isbn = $1: the rows, each with the number of its copies
ByIsbn(term) == {[row |-> BookRow(i), copies |-> 1] : i \in {j \in DOMAIN book : j = term}}

\* SELECT * FROM book WHERE publisher_name ILIKE $1
ByPublisher(term) ==
    {[row |-> BookRow(i), copies |-> 1] :
        i \in {j \in DOMAIN book : ILike(book[j].publisher_name, SearchPattern(term))}}

\* The bookauthor rows of book i whose author has this name.
LinksNamed(i, name) ==
    SumLinks(bookauthor,
             {k \in LinkKeys : k[2] = i /\ k[1] \in DOMAIN author /\ author[k[1]].name = name})

\* SELECT b.*, a.name ... FROM book b JOIN bookauthor ba ... JOIN author a ... WHERE a.name ILIKE $1
ByAuthor(term) ==
    {[row |-> JoinedRow(m[1], m[2]), copies |-> LinksNamed(m[1], m[2])] :
        m \in {x \in (DOMAIN book) \X {author[a].name : a \in DOMAIN author} :
                  ILike(x[2], SearchPattern(term)) /\ LinksNamed(x[1], x[2]) > 0}}

\* res.render("books/searchResults", { books, searchTerm, searchType })
Render(p, books, term, searchType) ==
    /\ pc' = [pc EXCEPT ![p] = "idle"]
    /\ loc' = [loc EXCEPT ![p] = NoLoc]
    /\ resp' = [route |-> "GET /search", params |-> <<>>, status |-> "render",
                view |-> [books |-> books, searchTerm |-> term, searchType |-> searchType]]

\* trim, then the search by ISBN; a non-empty result skips the other two searches
Search(p, query) ==
    /\ pc[p] = "idle"
    /\ UNCHANGED db
    /\ LET searchTerm == Trim(query)
       IN  IF searchTerm = <<>>
             THEN Respond(p, "GET /search", "redirect")
           ELSE IF ByIsbn(searchTerm) # {}
             THEN Render(p, ByIsbn(searchTerm), searchTerm, "isbn")
           ELSE Goto(p, "search_publisher", [NoLoc EXCEPT !.term = searchTerm])

\* the search by publisher; a non-empty result skips the search by author
SearchPublisher(p) ==
    /\ pc[p] = "search_publisher"
    /\ UNCHANGED db
    /\ IF ByPublisher(loc[p].term) # {}
         THEN Render(p, ByPublisher(loc[p].term), loc[p].term, "publisher")
         ELSE Goto(p, "search_author", loc[p])

\* the search by author
SearchAuthor(p) ==
    /\ pc[p] = "search_author"
    /\ UNCHANGED db
    /\ Render(p, ByAuthor(loc[p].term), loc[p].term,
              IF ByAuthor(loc[p].term) # {} THEN "author" ELSE "")

-----------------------------------------------------------------------------
(* The application *)

\* One step of the request in slot p, its inputs drawn from D.
Step(p, D) ==
    \/ \E body \in BookBodies(D) : PostBooks(p, body)
    \/ PostBooksLink(p)
    \/ \E isbn \in D.isbns, body \in BookEdits(D) : PutBooks(p, isbn, body)
    \/ PutBooksLink(p)
    \/ \E isbn \in D.isbns : DeleteBooks(p, isbn)
    \/ DeleteBooksLinks(p)
    \/ DeleteBooksRow(p)
    \/ \E body \in AuthorBodies(D) : PostAuthors(p, body)
    \/ PostAuthorsInsert(p)
    \/ \E id \in AuthorIds, body \in AuthorEdits(D) : PutAuthors(p, id, body)
    \/ \E id \in AuthorIds : DeleteAuthors(p, id)
    \/ DeleteAuthorsLinks(p)
    \/ DeleteAuthorsRow(p)
    \/ \E body \in PublisherBodies(D) : PostPublishers(p, body)
    \/ \E name \in PublisherNames, edit \in PublisherEdits(D) : PutPublishers(p, name, edit)
    \/ \E name \in PublisherNames : DeletePublishers(p, name)
    \/ DeletePublishersSelect(p)
    \/ DeletePublishersLinks(p)
    \/ DeletePublishersBooks(p)
    \/ DeletePublishersRow(p)
    \/ \E query \in D.queries : Search(p, query)
    \/ SearchPublisher(p)
    \/ SearchAuthor(p)

\* Requests interleave at their awaits.
Next == \E p \in Procs : Step(p, ConcurrentInputs)

Spec == Init /\ [][Next]_vars

\* One request at a time: each handler runs to its response before the next starts.
SerialNext == Step(1, Inputs)

Serial == Init /\ [][SerialNext]_vars

-----------------------------------------------------------------------------
(* Referential integrity *)

-----------------------------------------------------------------------------
(* Publisher rename *)

\* C3: after a successful PUT /publishers/:name that renames publisher A to a
\* different name B, every book that was attributed to A is attributed to B and no
\* book is attributed to A.  (Every step of the handler answers on its route, so
\* the steps that answer otherwise are passed over without looking for a request.)
C3_RenameReattributesBooks ==
    [][resp'.route = "PUT /publishers/:name" /\ resp'.status = "redirect" =>
        \A p \in Procs, name \in PublisherNames, edit \in PublisherEdits(Inputs) :
          PutPublishers(p, name, edit) /\ edit.new_name # name =>
            /\ \A i \in DOMAIN book :
                  book[i].publisher_name = name =>
                    i \in DOMAIN book' /\ book'[i].publisher_name = edit.new_name
            /\ \A i \in DOMAIN book' : book'[i].publisher_name # name]_vars

\* A publisher with two books has just been renamed.
C3_Witness ==
    /\ resp.route = "PUT /publishers/:name"
    /\ resp.status = "redirect"
    /\ resp.params[1] # resp.params[2]
    /\ resp.params[2] \in DOMAIN publisher
    /\ \A i \in Isbns : i \in DOMAIN book /\ book[i].publisher_name = resp.params[2]

\* C4: a PUT /publishers/:name that fails leaves the publisher table and the book
\* table as they were, and no step leaves the publisher row under its new name
\* while a book still carries the old one.
C4_RenameAllOrNothing ==
    [][resp'.route = "PUT /publishers/:name" =>
        \A p \in Procs, name \in PublisherNames, edit \in PublisherEdits(Inputs) :
          PutPublishers(p, name, edit) =>
            /\ (resp'.status # "redirect" => publisher' = publisher /\ book' = book)
            /\ ~ /\ edit.new_name # name
                 /\ name \in DOMAIN publisher
                 /\ name \notin DOMAIN publisher'
                 /\ edit.new_name \in DOMAIN publisher'
                 /\ \E i \in DOMAIN book' : book'[i].publisher_name = name]_vars

\* A rename has just failed on the name of another publisher, both with books.
C4_Witness ==
    /\ resp.route = "PUT /publishers/:name"
    /\ resp.status = "UniqueConstraintViolation"
    /\ \A n \in PublisherNames : \E i \in DOMAIN book : book[i].publisher_name = n

-----------------------------------------------------------------------------
(* Publisher delete *)

InDeletePublishers(p) ==
    pc[p] \in {"delete_publishers_select", "delete_publishers_links",
               "delete_publishers_books", "delete_publishers_row"}

\* C5: a DELETE /publishers/delete/:name of an existing publisher, run without
\* another request in between, completes; no statement of it touches an author, another
\* publisher, a book of another publisher or a link of such a book, or adds a book;
\* its SELECT returns the publisher's books; and when it completes the publisher
\* row, those books and every bookauthor row of those books are gone.
C5_DeletePublisherCascade ==
    [][\A p \in Procs :
          InDeletePublishers(p) =>
            LET name == loc[p].name
                mine == {i \in DOMAIN book : book[i].publisher_name = name}
            IN  /\ resp'.status \in {"none", "redirect"}
                /\ author' = author
                /\ DOMAIN book' \subseteq DOMAIN book
                /\ \A i \in DOMAIN book \ mine :
                      /\ i \in DOMAIN book' /\ book'[i] = book[i]
                      /\ \A a \in AuthorIds : bookauthor'[<<a, i>>] = bookauthor[<<a, i>>]
                /\ \A n \in DOMAIN publisher \ {name} :
                      n \in DOMAIN publisher' /\ publisher'[n] = publisher[n]
                /\ (pc[p] = "delete_publishers_select" =>
                      /\ {loc'[p].books[k] : k \in 1..Len(loc'[p].books)} = mine
                      /\ Len(loc'[p].books) = Cardinality(mine))
                /\ (pc[p] = "delete_publishers_row" =>
                      /\ resp'.status = "redirect"
                      /\ name \notin DOMAIN publisher'
                      /\ \A i \in DOMAIN book' : book'[i].publisher_name # name
                      /\ \A k \in 1..Len(loc[p].books) :
                            /\ loc[p].books[k] \notin DOMAIN book'
                            /\ \A a \in AuthorIds :
                                  bookauthor'[<<a, loc[p].books[k]>>] = 0)]_vars

\* The request has deleted the one book of its publisher and is about to delete the
\* publisher; a book of the other publisher is still there with its link.
C5_Witness ==
    /\ pc[1] = "delete_publishers_row"
    /\ Len(loc[1].books) = 1
    /\ loc[1].books[1] \notin DOMAIN book
    /\ \E i \in DOMAIN book, a \in AuthorIds : bookauthor[<<a, i>>] > 0

-----------------------------------------------------------------------------
(* Duplicate ISBN *)

\* C6: a POST /books whose ISBN is that of an existing book ends at its first
\* statement, with a unique-constraint violation when its payload passes validation,
\* and leaves all four tables unchanged: the book row keeps its fields and no
\* bookauthor row is added.  (The first statement of POST /books either answers on
\* the route or leaves a slot at the link statement; other steps are passed over.)
C6_DuplicateIsbnRejected ==
    [][resp'.route = "POST /books" \/ (\E p \in Procs : pc'[p] = "post_books_link") =>
        \A p \in Procs, body \in BookBodies(Inputs) :
          body.isbn \in DOMAIN book /\ PostBooks(p, body) =>
            /\ (validateBook(body) => resp'.status = "UniqueConstraintViolation")
            /\ resp'.status # "redirect"
            /\ pc'[p] = "idle"
            /\ UNCHANGED db]_vars

\* A POST /books has just been refused for its ISBN; the book is there with a link.
C6_Witness ==
    /\ resp.route = "POST /books"
    /\ resp.status = "UniqueConstraintViolation"
    /\ \E i \in DOMAIN book, a \in AuthorIds : bookauthor[<<a, i>>] > 0

-----------------------------------------------------------------------------
(* Search *)

\* t occurs in s, letter case ignored.
Contains(s, t) ==
    \E k \in 0..(Len(s) - Len(t)) : SubSeq(LowerText(s), k + 1, k + Len(t)) = LowerText(t)

HasWildcard(t) == \E k \in 1..Len(t) : t[k] \in {"%", "_", "\\"}

SubstringOfPublisher(term) ==
    {[row |-> BookRow(i), copies |-> 1] :
        i \in {j \in DOMAIN book : Contains(book[j].publisher_name, term)}}

SubstringOfAuthor(term) ==
    {[row |-> JoinedRow(m[1], m[2]), copies |-> LinksNamed(m[1], m[2])] :
        m \in {x \in (DOMAIN book) \X {author[a].name : a \in DOMAIN author} :
                  Contains(x[2], term) /\ LinksNamed(x[1], x[2]) > 0}}

\* The result of the first of the three strategies that finds a book, with its tag.
FirstMatch(term) ==
    IF ByIsbn(term) # {}
      THEN [books |-> ByIsbn(term), searchTerm |-> term, searchType |-> "isbn"]
    ELSE IF SubstringOfPublisher(term) # {}
      THEN [books |-> SubstringOfPublisher(term), searchTerm |-> term,
            searchType |-> "publisher"]
    ELSE IF SubstringOfAuthor(term) # {}
      THEN [books |-> SubstringOfAuthor(term), searchTerm |-> term, searchType |-> "author"]
    ELSE [books |-> {}, searchTerm |-> term, searchType |-> ""]

\* C7: for every non-empty trimmed query, GET /search renders the result of the
\* first of exact ISBN match, substring match on publisher_name, substring match on
\* a linked author's name that finds a book, tagged isbn, publisher or author, and an
\* empty result with an empty tag when none does (requests one at a time).
C7_FirstMatchingStrategy ==
    resp.status = "render" => resp.view = FirstMatch(resp.view.searchTerm)

\* The same for the queries that hold none of the LIKE pattern characters % _ \.
C7_FirstMatchingStrategyOfPlainQueries ==
    resp.status = "render" /\ ~HasWildcard(resp.view.searchTerm)
        => resp.view = FirstMatch(resp.view.searchTerm)

-----------------------------------------------------------------------------
(* Updates *)

\* C8: an update of a book, an author or a publisher whose key matches no row ends
\* with a NotFound outcome and leaves every table unchanged.
C8_UpdateOfMissingRowIsNotFound ==
    [][\A p \in Procs :
          /\ \A id \in AuthorIds, body \in AuthorEdits(Inputs) :
                PutAuthors(p, id, body) /\ id \notin DOMAIN author =>
                    resp'.status = "NotFound" /\ UNCHANGED db
          /\ \A name \in PublisherNames, edit \in PublisherEdits(Inputs) :
                PutPublishers(p, name, edit) /\ name \notin DOMAIN publisher =>
                    resp'.status = "NotFound" /\ UNCHANGED db
          /\ PutBooksLink(p) /\ loc[p].isbn \notin DOMAIN book =>
                    resp'.status = "NotFound" /\ UNCHANGED db]_vars

\* C9: a create or update request of a book or an author, or a create request of
\* a publisher, whose payload is invalid executes no INSERT and no UPDATE: the four
\* tables are unchanged.
C9_InvalidPayloadWritesNothing ==
    [][\A p \in Procs :
          /\ \A body \in BookBodies(Inputs) :
                PostBooks(p, body) /\ ~validateBook(body) => UNCHANGED db
          /\ \A isbn \in Isbns, body \in BookEdits(Inputs) :
                PutBooks(p, isbn, body) /\ ~validateBook(body) => UNCHANGED db
          /\ \A body \in AuthorBodies(Inputs) :
                PostAuthors(p, body) /\ ~validateAuthor(body) => UNCHANGED db
          /\ \A id \in AuthorIds, body \in AuthorEdits(Inputs) :
                PutAuthors(p, id, body) /\ ~validateAuthor(body) => UNCHANGED db
          /\ \A body \in PublisherBodies(Inputs) :
                PostPublishers(p, body) /\ ~validatePublisher(body) => UNCHANGED db]_vars

-----------------------------------------------------------------------------
(* Author ids *)

====
